---- MODULE Spec2Model ----
(***************************************************************************)
(* Model of the inheritance resolver and the parse orchestrator of the     *)
(* documentation generator (src/utils/parser.py, class CodeParser, and     *)
(* the batch loop of src/documentation_generator.py).                      *)
(*                                                                         *)
(* A class record is the dictionary built by CodeParser._parse_class; the  *)
(* keys the resolver adds later (inheritance_chain, inherited_methods,     *)
(* method_resolution_order, overrides) are modelled by a presence flag     *)
(* beside the value, the empty string standing for an absent string key.   *)
(* Class names are unique in a batch, so a record is identified by its     *)
(* name and the records of result["classes"] are the registry's records.   *)
(*                                                                         *)
(* The second part models DocstringParser.parse of the same file.  A       *)
(* string is a sequence of characters, a run of letters standing as one    *)
(* character: the parser searches strings for blanks, line ends and        *)
(* punctuation only and compares words whole.                              *)
(*                                                                         *)
(* The third part models GherkinGenerator.make_gherkins                    *)
(* (src/utils/gherkin_generator.py): every call of the language model      *)
(* succeeds or raises, the classifier answers clear or unclear, and the    *)
(* texts the model returns are told apart by a version number only.        *)
(***************************************************************************)
EXTENDS Naturals, Sequences, FiniteSets, TLC

VARIABLES
    files,            \* the batch: one sequence of class definitions per source file
    unparsable,       \* the files of the batch on which ast.parse raises SyntaxError, by position
    resolve_inheritance, \* the flag main passes to every parse call
    fileIdx,          \* position of main's loop over python_files
    pc,               \* the position of the running program: "main" | "resolve" | "done" for main
    parsed_classes,   \* CodeParser.parsed_classes: name -> class record
    result_classes,   \* names of result["classes"] of the running parse call
    result_functions, \* result["functions"] of the running parse call
    k,                \* position of parse's second-pass loop in result["classes"]
    stack,            \* active _resolve_inheritance calls, innermost last
    calls,            \* per class: _resolve_inheritance calls that got past the early return in the running pass
    run,              \* 1 for the first run, 2 for the run it is compared with
    first,            \* the registry as the first run left it
    style,            \* DocstringParser.style
    docstring,        \* the argument of DocstringParser.parse
    result,           \* what DocstringParser.parse returned, once it has
    callable_obj,     \* make_gherkins: "callable" or "other", what callable(callable_obj) tells
    max_iterations,   \* GherkinGenerator.max_iterations
    parsed_doc,       \* which of the sections raises and examples _parse_docstring has found
    scenario_type,    \* position in the scenario types of _generate_gherkin_with_llm
    iteration,        \* the loop variable of _refine_scenario_with_llm
    scenario,         \* the scenario text at hand: its version and what the classifier said of it
    classifications,  \* _classify_scenario_clarity calls of the running refinement
    iterations,       \* per scenario type: the iterations its refinement returned
    llm_calls,        \* calls of client.chat.completions.create so far
    refined,          \* how the last _refine_scenario_with_llm call ended
    failure,          \* the exception _generate_gherkin_with_llm raised, "" if none
    output            \* what make_gherkins returned or raised

docvars == <<style, docstring, result>>

gvars == <<callable_obj, max_iterations, parsed_doc, scenario_type, iteration, scenario,
           classifications, iterations, llm_calls, refined, failure, output>>

vars == <<files, unparsable, resolve_inheritance, fileIdx, pc, parsed_classes, result_classes,
          result_functions, k, stack, calls, run, first, docvars, gvars>>

\* the state of CodeParser and of main's loop, pc apart
codevars == <<files, unparsable, resolve_inheritance, fileIdx, parsed_classes, result_classes,
              result_functions, k, stack, calls, run, first>>

(***************************************************************************)
(* Bounds of the model.                                                    *)
(***************************************************************************)
MaxEdges == 3        \* declared bases in one batch, all classes together
MaxInherited == 3    \* entries recorded per inherited_methods list (further copies are not recorded)

ClassNames == {"A", "B", "C", "D"}
External == "object"

Range(s) == {s[i] : i \in DOMAIN s}

(***************************************************************************)
(* Records.                                                                *)
(***************************************************************************)
\* the names of the model's inputs with name.startswith('__') and name.endswith('__')
Dunders == {"__init__", "__str__", "__repr__", "__eq__"}

\* a node of the syntax tree: a class definition with its bases and the
\* definitions of its body, or a function definition, plain or async
Node(kind, name, bases, methods) ==
    [kind |-> kind, name |-> name, bases |-> bases, methods |-> methods]

Def(name) == Node("FunctionDef", name, <<>>, <<>>)
AsyncDef(name) == Node("AsyncFunctionDef", name, <<>>, <<>>)

\* isinstance(node, ast.FunctionDef): ast.AsyncFunctionDef is another class
IsFunctionDef(node) == node.kind = "FunctionDef"
IsClassDef(node) == node.kind = "ClassDef"

\* _parse_function: the function dictionary of a definition
ParseFunction(node) ==
    [name |-> node.name, is_async |-> node.kind = "AsyncFunctionDef"]

\* a method dictionary as _parse_class leaves it
Method(node) ==
    [name |-> node.name,
     is_async |-> ParseFunction(node).is_async,
     is_special |-> node.name \in Dunders,
     overrides |-> "",
     is_inherited |-> FALSE,
     inherited_from |-> ""]

\* _parse_class, lines 810-826: the methods of the definitions of a class body
RECURSIVE MethodsOf(_)
MethodsOf(body) ==
    IF body = <<>> THEN <<>>
    ELSE (IF IsFunctionDef(Head(body)) THEN <<Method(Head(body))>> ELSE <<>>)
         \o MethodsOf(Tail(body))

\* the class dictionary _parse_class returns on the first pass
ClassInfo(def) ==
    [name |-> def.name,
     bases |-> def.bases,
     methods |-> MethodsOf(def.methods),
     has_inheritance_chain |-> FALSE,
     inheritance_chain |-> <<>>,
     inherited_methods |-> <<>>,
     has_mro |-> FALSE,
     method_resolution_order |-> <<>>]

(***************************************************************************)
(* inherited_methods: an insertion-ordered dictionary, key -> list.        *)
(***************************************************************************)
ImHas(im, key) == \E i \in DOMAIN im : im[i].key = key
ImIdx(im, key) == CHOOSE i \in DOMAIN im : im[i].key = key
ImList(im, key) == im[ImIdx(im, key)].methods
ImInit(im, key) == IF ImHas(im, key) THEN im ELSE Append(im, [key |-> key, methods |-> <<>>])
ImAdd(im, key, m) == [im EXCEPT ![ImIdx(im, key)].methods = Append(@, m)]
ImKeys(im) == {im[i].key : i \in DOMAIN im}
Names(ms) == {ms[i].name : i \in DOMAIN ms}

\* the copy without the tag inherited_from
InheritUntagged(method, from) == [method EXCEPT !.is_inherited = TRUE]

\* method.copy() with the two inheritance tags
Inherit(method, from) == [method EXCEPT !.is_inherited = TRUE, !.inherited_from = from]

DefinedMethods(cls) == Names(cls.methods)

\* defined_methods[name]["overrides"] = tag
TagOverride(cls, name, tag) ==
    [cls EXCEPT !.methods =
        [j \in DOMAIN cls.methods |->
            IF cls.methods[j].name = name
            THEN [cls.methods[j] EXCEPT !.overrides = tag]
            ELSE cls.methods[j]]]

\* the flag computed by the loop over class_info["bases"]
AlreadyInherited(cls, name) ==
    \E b \in Range(cls.bases) :
        /\ ImHas(cls.inherited_methods, b)
        /\ name \in Names(ImList(cls.inherited_methods, b))

\* for ancestor in base_class["inheritance_chain"]: append if absent
RECURSIVE ExtendChain(_, _)
ExtendChain(chain, ancestors) ==
    IF ancestors = <<>> THEN chain
    ELSE ExtendChain(IF Head(ancestors) \in Range(chain) THEN chain
                     ELSE Append(chain, Head(ancestors)),
                     Tail(ancestors))

\* the loop of line 1053 without the test of line 1055
RECURSIVE AddBaseMethodsWithDunders(_, _, _)
AddBaseMethodsWithDunders(cls, base_name, ms) ==
    IF ms = <<>> THEN cls
    ELSE LET method == Head(ms) IN
         IF method.name \in DefinedMethods(cls)
         THEN AddBaseMethodsWithDunders(
                 TagOverride(cls, method.name, base_name \o "." \o method.name),
                 base_name, Tail(ms))
         ELSE AddBaseMethodsWithDunders(
                 [cls EXCEPT !.inherited_methods = ImAdd(@, base_name, Inherit(method, base_name))],
                 base_name, Tail(ms))

\* for method in base_class["methods"]
RECURSIVE AddBaseMethods(_, _, _)
AddBaseMethods(cls, base_name, ms) ==
    IF ms = <<>> THEN cls
    ELSE LET method == Head(ms) IN
         IF method.is_special /\ method.name \notin {"__str__", "__repr__"}
         THEN AddBaseMethods(cls, base_name, Tail(ms))
         ELSE IF method.name \in DefinedMethods(cls)
         THEN AddBaseMethods(TagOverride(cls, method.name, base_name \o "." \o method.name),
                             base_name, Tail(ms))
         ELSE AddBaseMethods(
                 [cls EXCEPT !.inherited_methods = ImAdd(@, base_name, Inherit(method, base_name))],
                 base_name, Tail(ms))

\* the loop of line 1075 without the test of line 1077
RECURSIVE AddAncestorListKeepLocal(_, _, _)
AddAncestorListKeepLocal(cls, ancestor_name, ms) ==
    IF ms = <<>> THEN cls
    ELSE LET method == Head(ms) IN
         IF AlreadyInherited(cls, method.name)
         THEN AddAncestorListKeepLocal(cls, ancestor_name, Tail(ms))
         ELSE AddAncestorListKeepLocal(
                 [cls EXCEPT !.inherited_methods =
                     ImAdd(@, ancestor_name, Inherit(method, ancestor_name))],
                 ancestor_name, Tail(ms))

\* for method in ancestor_methods
RECURSIVE AddAncestorList(_, _, _)
AddAncestorList(cls, ancestor_name, ms) ==
    IF ms = <<>> THEN cls
    ELSE LET method == Head(ms) IN
         IF method.name \in DefinedMethods(cls) \/ AlreadyInherited(cls, method.name)
         THEN AddAncestorList(cls, ancestor_name, Tail(ms))
         ELSE AddAncestorList(
                 [cls EXCEPT !.inherited_methods =
                     ImAdd(@, ancestor_name, Inherit(method, ancestor_name))],
                 ancestor_name, Tail(ms))

\* for ancestor_name, ancestor_methods in base_class["inherited_methods"].items()
RECURSIVE AddAncestorMethods(_, _)
AddAncestorMethods(cls, bim) ==
    IF bim = <<>> THEN cls
    ELSE AddAncestorMethods(
            AddAncestorList([cls EXCEPT !.inherited_methods = ImInit(@, Head(bim).key)],
                            Head(bim).key, Head(bim).methods),
            Tail(bim))

(***************************************************************************)
(* One pass of the loop over class_info["bases"] for the base base_name,   *)
(* after the base was appended to the chain and resolved on demand.        *)
(***************************************************************************)
\* lines 1042-1067: the chain of the base, its key, its own methods
MergeOwn(reg, name, base_name) ==
    LET base_class == reg[base_name]
        c1 == IF base_class.has_inheritance_chain
              THEN [reg[name] EXCEPT !.inheritance_chain =
                                   ExtendChain(@, base_class.inheritance_chain)]
              ELSE reg[name]
        c2 == [c1 EXCEPT !.inherited_methods = ImInit(@, base_name)]
    IN  AddBaseMethods(c2, base_name,
                       IF base_name = name THEN c2.methods ELSE base_class.methods)

\* lines 1042-1098 when the base is another class than class_info
MergeBase(reg, name, base_name) ==
    LET base_class == reg[base_name]
        c3 == MergeOwn(reg, name, base_name)
    IN  IF base_class.has_inheritance_chain /\ base_name # name
        THEN AddAncestorMethods(c3, base_class.inherited_methods)
        ELSE c3

\* an entry the loop at 1075 copies: not defined locally, not under a declared base
Copied(cls, method) ==
    /\ method.name \notin DefinedMethods(cls)
    /\ ~AlreadyInherited(cls, method.name)

\* the base is class_info itself: the loops at 1071 and 1075 run over the very
\* dictionary and lists that line 1098 appends to; the keys met before one
\* holds an entry that is copied
SelfCopyKeys(cls) ==
    {i \in DOMAIN cls.inherited_methods :
        \E j \in DOMAIN cls.inherited_methods[i].methods :
            Copied(cls, cls.inherited_methods[i].methods[j])}

\* _calculate_mro
RECURSIVE AppendMissing(_, _)
AppendMissing(mro, chain) ==
    IF chain = <<>> THEN mro
    ELSE AppendMissing(IF Head(chain) \in Range(mro) THEN mro ELSE Append(mro, Head(chain)),
                       Tail(chain))

CalculateMro(cls) == AppendMissing(<<cls.name>> \o cls.bases, cls.inheritance_chain)

\* lines 1019-1021: the early return
SkipsResolution(cls) == cls.bases = <<>> \/ cls.bases = <<External>>

\* lines 1023-1025
Enter(cls) ==
    [cls EXCEPT !.has_inheritance_chain = TRUE,
                !.inheritance_chain = <<>>,
                !.inherited_methods = <<>>]

Frame(name) == [cls |-> name, i |-> 1, st |-> "loop", key |-> "", todo |-> <<>>, cur |-> <<>>]

(***************************************************************************)
(* Actions.                                                                *)
(***************************************************************************)
Top == stack[Len(stack)]
SetTop(f) == [stack EXCEPT ![Len(stack)] = f]
Pop == SubSeq(stack, 1, Len(stack) - 1)

NoCalls == [c \in ClassNames |-> 0]

\* parse, lines 734-740: every class of the file enters the registry unresolved
RECURSIVE Extract(_, _)
Extract(reg, defs) ==
    IF defs = <<>> THEN reg
    ELSE IF ~IsClassDef(Head(defs)) THEN Extract(reg, Tail(defs))
    ELSE Extract([n \in DOMAIN reg \cup {Head(defs).name} |->
                     IF n = Head(defs).name THEN ClassInfo(Head(defs)) ELSE reg[n]],
                 Tail(defs))

\* the names of result["classes"]: the class definitions of the module body
FileNames(defs) ==
    LET classes == SelectSeq(defs, IsClassDef) IN
    [i \in DOMAIN classes |-> classes[i].name]

\* parse, lines 743-745: result["functions"]
FunctionsOf(defs) ==
    LET functions == SelectSeq(defs, IsFunctionDef) IN
    [i \in DOMAIN functions |-> ParseFunction(functions[i])]

\* main's loop: what follows the parse call of file number idx
AfterFile(idx) == IF idx >= Len(files) THEN "done" ELSE "main"

\* the first pass followed by the second whatever the flag says
ParseFileAlwaysResolves ==
    /\ pc = "main"
    /\ fileIdx <= Len(files)
    /\ fileIdx \notin unparsable
    /\ parsed_classes' = Extract(parsed_classes, files[fileIdx])
    /\ result_classes' = FileNames(files[fileIdx])
    /\ result_functions' = FunctionsOf(files[fileIdx])
    /\ k' = 1
    /\ calls' = NoCalls
    /\ pc' = "resolve"
    /\ UNCHANGED <<docvars, gvars, files, unparsable, resolve_inheritance, fileIdx, stack, run, first>>

\* main, lines 41-50, and parse, lines 710-748: the first pass over one file
ParseFile ==
    /\ pc = "main"
    /\ fileIdx <= Len(files)
    /\ fileIdx \notin unparsable
    /\ parsed_classes' = Extract(parsed_classes, files[fileIdx])
    /\ result_classes' = FileNames(files[fileIdx])
    /\ result_functions' = FunctionsOf(files[fileIdx])
    /\ k' = 1
    /\ calls' = NoCalls
    /\ IF resolve_inheritance
       THEN pc' = "resolve" /\ fileIdx' = fileIdx
       ELSE pc' = AfterFile(fileIdx) /\ fileIdx' = fileIdx + 1
    /\ UNCHANGED <<docvars, gvars, files, unparsable, resolve_inheritance, stack, run, first>>

\* the error met only after the first pass has registered the classes of the file
ParseFailureAfterExtraction ==
    /\ pc = "main"
    /\ fileIdx <= Len(files)
    /\ fileIdx \in unparsable
    /\ parsed_classes' = Extract(parsed_classes, files[fileIdx])
    /\ result_classes' = <<>>
    /\ result_functions' = <<>>
    /\ pc' = AfterFile(fileIdx)
    /\ fileIdx' = fileIdx + 1
    /\ UNCHANGED <<docvars, gvars, files, unparsable, resolve_inheritance, k, stack, calls, run, first>>

\* parse, lines 714-722: ast.parse raises SyntaxError and the call returns the
\* empty result before any class of the file is extracted
ParseFailure ==
    /\ pc = "main"
    /\ fileIdx <= Len(files)
    /\ fileIdx \in unparsable
    /\ result_classes' = <<>>
    /\ result_functions' = <<>>
    /\ pc' = AfterFile(fileIdx)
    /\ fileIdx' = fileIdx + 1
    /\ UNCHANGED <<docvars, gvars, files, unparsable, resolve_inheritance, parsed_classes, k, stack, calls,
                   run, first>>

\* parse, lines 749-750: the second pass calls the resolver on the next class
CallResolve ==
    /\ pc = "resolve"
    /\ stack = <<>>
    /\ k <= Len(result_classes)
    /\ LET name == result_classes[k] IN
        IF SkipsResolution(parsed_classes[name])
        THEN UNCHANGED <<parsed_classes, stack, calls>>
        ELSE /\ parsed_classes' = [parsed_classes EXCEPT ![name] = Enter(@)]
             /\ stack' = <<Frame(name)>>
             /\ calls' = [calls EXCEPT ![name] = @ + 1]
    /\ k' = k + 1
    /\ UNCHANGED <<docvars, gvars, result_functions, files, unparsable, resolve_inheritance, fileIdx, pc, result_classes, run, first>>

\* parse, line 755: the second pass is over, the call returns to main
FinishParse ==
    /\ pc = "resolve"
    /\ stack = <<>>
    /\ k > Len(result_classes)
    /\ pc' = AfterFile(fileIdx)
    /\ fileIdx' = fileIdx + 1
    /\ UNCHANGED <<docvars, gvars, result_functions, files, unparsable, resolve_inheritance, parsed_classes, result_classes, k, stack,
                   calls, run, first>>

\* the innermost call is at the head of the loop of line 1031 with a base left
AtBase ==
    /\ stack # <<>>
    /\ Top.st = "loop"
    /\ Top.i <= Len(parsed_classes[Top.cls].bases)

BaseName == parsed_classes[Top.cls].bases[Top.i]

\* line 1036: the base enters the chain, whatever the chain holds
WithBase(reg, name, base_name) ==
    [reg EXCEPT ![name].inheritance_chain = Append(@, base_name)]

\* a base that is not in the registry ends the loop over the bases
StopAtMissingBase ==
    /\ AtBase
    /\ BaseName \notin DOMAIN parsed_classes
    /\ stack' = SetTop([Top EXCEPT !.i = Len(parsed_classes[Top.cls].bases) + 1])
    /\ UNCHANGED <<docvars, gvars, result_functions, files, unparsable, resolve_inheritance, fileIdx, pc, parsed_classes, result_classes,
                   k, calls, run, first>>

\* line 1032: the base is not in the registry
SkipBase ==
    /\ AtBase
    /\ BaseName \notin DOMAIN parsed_classes
    /\ stack' = SetTop([Top EXCEPT !.i = @ + 1])
    /\ UNCHANGED <<docvars, gvars, result_functions, files, unparsable, resolve_inheritance, fileIdx, pc, parsed_classes, result_classes,
                   k, calls, run, first>>

\* lines 1033-1098 for a base that needs no resolution of its own: it carries a
\* chain already, or its resolution returns at line 1021
VisitBase ==
    /\ AtBase
    /\ BaseName \in DOMAIN parsed_classes
    /\ \/ parsed_classes[BaseName].has_inheritance_chain
       \/ SkipsResolution(parsed_classes[BaseName])
    /\ LET name == Top.cls
           reg == WithBase(parsed_classes, name, BaseName)
           own == MergeOwn(reg, name, BaseName)
       IN  IF BaseName = name /\ SelfCopyKeys(own) # {}
           THEN LET first_key == CHOOSE i \in SelfCopyKeys(own) :
                                    \A j \in SelfCopyKeys(own) : i <= j
                IN  /\ parsed_classes' = [reg EXCEPT ![name] = own]
                    /\ stack' = SetTop([Top EXCEPT
                                   !.st = "iter",
                                   !.key = own.inherited_methods[first_key].key,
                                   !.todo = own.inherited_methods[first_key].methods])
           ELSE /\ parsed_classes' = [reg EXCEPT ![name] = MergeBase(reg, name, BaseName)]
                /\ stack' = SetTop([Top EXCEPT !.i = @ + 1])
    /\ UNCHANGED <<docvars, gvars, result_functions, files, unparsable, resolve_inheritance, fileIdx, pc, result_classes, k, calls,
                   run, first>>

\* lines 1033-1098 without the call of line 1040: the base is merged as it is
MergeUnresolvedBase ==
    /\ AtBase
    /\ BaseName \in DOMAIN parsed_classes
    /\ ~parsed_classes[BaseName].has_inheritance_chain
    /\ ~SkipsResolution(parsed_classes[BaseName])
    /\ LET reg == WithBase(parsed_classes, Top.cls, BaseName) IN
        parsed_classes' = [reg EXCEPT ![Top.cls] = MergeBase(reg, Top.cls, BaseName)]
    /\ stack' = SetTop([Top EXCEPT !.i = @ + 1])
    /\ UNCHANGED <<docvars, gvars, result_functions, files, unparsable, resolve_inheritance, fileIdx, pc, result_classes, k, calls,
                   run, first>>

\* lines 1033-1040: the base carries no chain yet and is resolved on demand
RecurseIntoBase ==
    /\ AtBase
    /\ BaseName \in DOMAIN parsed_classes
    /\ ~parsed_classes[BaseName].has_inheritance_chain
    /\ ~SkipsResolution(parsed_classes[BaseName])
    /\ parsed_classes' =
          [WithBase(parsed_classes, Top.cls, BaseName) EXCEPT ![BaseName] = Enter(@)]
    /\ stack' = Append(SetTop([Top EXCEPT !.st = "merge"]), Frame(BaseName))
    /\ calls' = [calls EXCEPT ![BaseName] = @ + 1]
    /\ UNCHANGED <<docvars, gvars, result_functions, files, unparsable, resolve_inheritance, fileIdx, pc, result_classes, k, run, first>>

\* lines 1042-1098 after the recursive call of line 1040 has returned
MergeAfterReturn ==
    /\ stack # <<>>
    /\ Top.st = "merge"
    /\ parsed_classes' = [parsed_classes EXCEPT ![Top.cls] =
                              MergeBase(parsed_classes, Top.cls, BaseName)]
    /\ stack' = SetTop([Top EXCEPT !.st = "loop", !.i = @ + 1])
    /\ UNCHANGED <<docvars, gvars, result_functions, files, unparsable, resolve_inheritance, fileIdx, pc, result_classes, k, calls,
                   run, first>>

\* line 1075 on a list of class_info itself: the iterator yields the next entry
SelfNext ==
    /\ stack # <<>>
    /\ Top.st = "iter"
    /\ Top.todo # <<>>
    /\ stack' = SetTop([Top EXCEPT !.st = "body", !.cur = <<Head(Top.todo)>>,
                                   !.todo = Tail(Top.todo)])
    /\ UNCHANGED <<docvars, gvars, result_functions, files, unparsable, resolve_inheritance, fileIdx, pc, parsed_classes, result_classes,
                   k, calls, run, first>>

\* lines 1076-1098 on that entry: the copy is appended to the list being iterated
SelfBody ==
    /\ stack # <<>>
    /\ Top.st = "body"
    /\ LET cls == parsed_classes[Top.cls]
           method == Top.cur[1]
           copy == Inherit(method, Top.key)
       IN  IF Copied(cls, method)
           THEN /\ parsed_classes' =
                      IF Len(ImList(cls.inherited_methods, Top.key)) < MaxInherited
                      THEN [parsed_classes EXCEPT ![Top.cls].inherited_methods =
                                                      ImAdd(@, Top.key, copy)]
                      ELSE parsed_classes
                /\ stack' = SetTop([Top EXCEPT !.st = "iter", !.cur = <<>>,
                                               !.todo = Append(@, copy)])
           ELSE /\ parsed_classes' = parsed_classes
                /\ stack' = SetTop([Top EXCEPT !.st = "iter", !.cur = <<>>])
    /\ UNCHANGED <<docvars, gvars, result_functions, files, unparsable, resolve_inheritance, fileIdx, pc, result_classes, k, calls,
                   run, first>>

\* the return with the test of line 1101 made on the chain, not on the bases
ReturnMroByChain ==
    /\ stack # <<>>
    /\ Top.st = "loop"
    /\ Top.i > Len(parsed_classes[Top.cls].bases)
    /\ LET cls == parsed_classes[Top.cls] IN
        parsed_classes' =
          IF Len(cls.inheritance_chain) > 1
          THEN [parsed_classes EXCEPT ![Top.cls].has_mro = TRUE,
                                      ![Top.cls].method_resolution_order = CalculateMro(cls)]
          ELSE parsed_classes
    /\ stack' = Pop
    /\ UNCHANGED <<docvars, gvars, result_functions, files, unparsable, resolve_inheritance, fileIdx, pc, result_classes, k, calls,
                   run, first>>

\* lines 1100-1102: the loop over the bases is over, the call returns
Return ==
    /\ stack # <<>>
    /\ Top.st = "loop"
    /\ Top.i > Len(parsed_classes[Top.cls].bases)
    /\ LET cls == parsed_classes[Top.cls] IN
        parsed_classes' =
          IF Len(cls.bases) > 1
          THEN [parsed_classes EXCEPT ![Top.cls].has_mro = TRUE,
                                      ![Top.cls].method_resolution_order = CalculateMro(cls)]
          ELSE parsed_classes
    /\ stack' = Pop
    /\ UNCHANGED <<docvars, gvars, result_functions, files, unparsable, resolve_inheritance, fileIdx, pc, result_classes, k, calls,
                   run, first>>

Resolve == CallResolve \/ SkipBase \/ VisitBase \/ RecurseIntoBase \/ MergeAfterReturn
              \/ SelfNext \/ SelfBody \/ Return

(***************************************************************************)
(* Strings of DocstringParser.                                             *)
(***************************************************************************)
NL == "\n"
Blanks == {" ", NL}

\* str.lstrip, str.rstrip and str.strip without argument
RECURSIVE LStrip(_)
LStrip(s) == IF s # <<>> /\ Head(s) \in Blanks THEN LStrip(Tail(s)) ELSE s

RECURSIVE RStrip(_)
RStrip(s) ==
    IF s # <<>> /\ s[Len(s)] \in Blanks THEN RStrip(SubSeq(s, 1, Len(s) - 1)) ELSE s

Strip(s) == RStrip(LStrip(s))

\* len(line) - len(line.lstrip())
Indentation(line) == Len(line) - Len(LStrip(line))

StartsWith(s, prefix) ==
    Len(prefix) <= Len(s) /\ SubSeq(s, 1, Len(prefix)) = prefix

\* str.splitlines: a line end closes a line, the last line needs none
RECURSIVE SplitLinesFrom(_, _, _)
SplitLinesFrom(s, line, lines) ==
    IF s = <<>> THEN (IF line = <<>> THEN lines ELSE Append(lines, line))
    ELSE IF Head(s) = NL THEN SplitLinesFrom(Tail(s), <<>>, Append(lines, line))
    ELSE SplitLinesFrom(Tail(s), Append(line, Head(s)), lines)

SplitLines(s) == SplitLinesFrom(s, <<>>, <<>>)

\* '\n'.join(lines)
RECURSIVE Join(_)
Join(lines) ==
    IF lines = <<>> THEN <<>>
    ELSE IF Len(lines) = 1 THEN lines[1]
    ELSE lines[1] \o <<NL>> \o Join(Tail(lines))

\* str.split(sep, maxsplit)
RECURSIVE SplitFrom(_, _, _, _, _)
SplitFrom(s, sep, maxsplit, part, parts) ==
    IF s = <<>> THEN Append(parts, part)
    ELSE IF maxsplit > 0 /\ StartsWith(s, sep)
    THEN SplitFrom(SubSeq(s, Len(sep) + 1, Len(s)), sep, maxsplit - 1, <<>>, Append(parts, part))
    ELSE SplitFrom(Tail(s), sep, maxsplit, Append(part, Head(s)), parts)

Split(s, sep, maxsplit) == SplitFrom(s, sep, maxsplit, <<>>, <<>>)

\* str.split(): the runs between blanks
RECURSIVE WordsFrom(_, _, _)
WordsFrom(s, word, words) ==
    IF s = <<>> THEN (IF word = <<>> THEN words ELSE Append(words, word))
    ELSE IF Head(s) \in Blanks
    THEN WordsFrom(Tail(s), <<>>, IF word = <<>> THEN words ELSE Append(words, word))
    ELSE WordsFrom(Tail(s), Append(word, Head(s)), words)

Words(s) == WordsFrom(s, <<>>, <<>>)

\* str.lower on the words of the model that hold a capital letter
LowerWord(w) ==
    CASE w = "Parameters" -> "parameters"
      [] w = "Returns" -> "returns"
      [] w = "Raises" -> "raises"
      [] w = "Examples" -> "examples"
      [] w = "Args" -> "args"
      [] w = "The" -> "the"
      [] w = "ValueError" -> "valueerror"
      [] OTHER -> w

Lower(s) == [i \in DOMAIN s |-> LowerWord(s[i])]

\* the string of one word
Word(w) == <<w>>

(***************************************************************************)
(* DocstringParser: cleaning and the split into sections.  The sections    *)
(* dictionary is insertion-ordered: name -> content.  None and the empty   *)
(* string, both false for `if current_section`, are the empty sequence.    *)
(***************************************************************************)
SecHas(sections, name) == \E i \in DOMAIN sections : sections[i].name = name

\* sections[name] = content
SecPut(sections, name, content) ==
    IF SecHas(sections, name)
    THEN [i \in DOMAIN sections |->
             IF sections[i].name = name THEN [name |-> name, content |-> content]
             ELSE sections[i]]
    ELSE Append(sections, [name |-> name, content |-> content])

SetMin(S) == CHOOSE n \in S : \A m \in S : n <= m

\* _clean_docstring
CleanDocstring(text) ==
    LET all == SplitLines(text)
        tail == IF all # <<>> /\ Strip(all[1]) = <<>> THEN Tail(all) ELSE all
        lines == IF tail # <<>> /\ Strip(tail[Len(tail)]) = <<>>
                 THEN SubSeq(tail, 1, Len(tail) - 1) ELSE tail
        indents == {Indentation(lines[i]) : i \in {j \in DOMAIN lines : Strip(lines[j]) # <<>>}}
        min_indent == IF indents = {} THEN 0 ELSE SetMin(indents)
    IN  Join([i \in DOMAIN lines |-> SubSeq(lines[i], min_indent + 1, Len(lines[i]))])

\* the loop state of the three splitters
NoSection ==
    [current_section |-> <<>>, current_content |-> <<>>, description_lines |-> <<>>,
     sections |-> <<>>]

\* if current_section: sections[current_section] = '\n'.join(current_content)
SaveSection(st) ==
    IF st.current_section # <<>>
    THEN [st EXCEPT !.sections = SecPut(@, st.current_section, Join(st.current_content))]
    ELSE st

\* the lines after the loop: the last section is saved, the pair is returned
SplitResult(st) ==
    [description |-> Join(st.description_lines), sections |-> SaveSection(st).sections]

\* a line that is not a section title goes to the open section or to the description
KeepLine(st, line) ==
    IF st.current_section # <<>>
    THEN [st EXCEPT !.current_content = Append(@, line)]
    ELSE [st EXCEPT !.description_lines = Append(@, line)]

\* set(lines[i+1].strip()) in ({'-'}, {'='})
IsUnderline(line) == {Strip(line)[j] : j \in DOMAIN Strip(line)} \in {{"-"}, {"="}}

\* _split_numpy_sections, lines 178-196: `for i, line in enumerate(lines)` takes
\* the next line whatever line 192 has added to i
RECURSIVE SplitNumpyFrom(_, _, _)
SplitNumpyFrom(lines, i, st) ==
    IF i > Len(lines) THEN SplitResult(st)
    ELSE LET line == lines[i]
             stripped == Strip(line)
         IN  IF i < Len(lines) /\ stripped # <<>> /\ IsUnderline(lines[i + 1])
             THEN SplitNumpyFrom(lines, i + 1,
                     [SaveSection(st) EXCEPT
                         !.current_content = IF st.current_section # <<>> THEN <<>> ELSE @,
                         !.current_section = stripped])
             ELSE SplitNumpyFrom(lines, i + 1, KeepLine(st, line))

SplitNumpySections(text) == SplitNumpyFrom(SplitLines(text), 1, NoSection)

\* _split_rest_sections, lines 222-241
RECURSIVE SplitRestFrom(_, _, _)
SplitRestFrom(lines, i, st) ==
    IF i > Len(lines) THEN SplitResult(st)
    ELSE LET line == lines[i]
             stripped == Strip(line)
         IN  IF StartsWith(stripped, <<":">>) /\ \E j \in 2..Len(stripped) : stripped[j] = ":"
             THEN LET parts == Split(stripped, <<":">>, 2) IN
                  SplitRestFrom(lines, i + 1,
                     [SaveSection(st) EXCEPT
                         !.current_section = IF Len(parts) >= 3 THEN Strip(parts[2]) ELSE <<>>,
                         !.current_content =
                             IF Len(parts) >= 3 THEN <<Strip(parts[3])>>
                             ELSE IF st.current_section # <<>> THEN <<>> ELSE @])
             ELSE SplitRestFrom(lines, i + 1, KeepLine(st, line))

SplitRestSections(text) == SplitRestFrom(SplitLines(text), 1, NoSection)

\* _split_google_sections, lines 138-152
RECURSIVE SplitGoogleFrom(_, _, _)
SplitGoogleFrom(lines, i, st) ==
    IF i > Len(lines) THEN SplitResult(st)
    ELSE LET line == lines[i]
             stripped == Strip(line)
         IN  IF /\ stripped # <<>>
                /\ stripped[Len(stripped)] = ":"
                /\ ~StartsWith(line, <<" ", " ", " ", " ">>)
             THEN SplitGoogleFrom(lines, i + 1,
                     [SaveSection(st) EXCEPT
                         !.current_content = IF st.current_section # <<>> THEN <<>> ELSE @,
                         !.current_section = SubSeq(stripped, 1, Len(stripped) - 1)])
             ELSE SplitGoogleFrom(lines, i + 1, KeepLine(st, line))

SplitGoogleSections(text) == SplitGoogleFrom(SplitLines(text), 1, NoSection)

(***************************************************************************)
(* DocstringParser: the parsers of one section.  A key that holds None or  *)
(* a string is a presence flag beside the string.                          *)
(***************************************************************************)
Param(name, has_type, type, description) ==
    [name |-> name, has_type |-> has_type, type |-> type, description |-> description]

Raised(type, description) == [type |-> type, description |-> description]

\* result["returns"]: None, a dictionary with type and description, or a string
NoReturns == [kind |-> "none", has_type |-> FALSE, type |-> <<>>, description |-> <<>>]
ReturnsRecord(has_type, type, description) ==
    [kind |-> "record", has_type |-> has_type, type |-> type, description |-> description]
ReturnsString(text) ==
    [kind |-> "string", has_type |-> FALSE, type |-> <<>>, description |-> text]

\* the loop state of the parameter and exception parsers
NoEntry ==
    [entries |-> <<>>, started |-> FALSE, current |-> <<>>, has_type |-> FALSE,
     current_type |-> <<>>, current_description |-> <<>>]

\* params.append({...}) for the running parameter
SaveParam(st) ==
    IF st.current # <<>>
    THEN [st EXCEPT !.entries =
            Append(@, Param(st.current, st.has_type, st.current_type,
                            Strip(Join(st.current_description))))]
    ELSE st

\* _parse_numpy_params, lines 477-503
RECURSIVE NumpyParamsFrom(_, _, _)
NumpyParamsFrom(lines, i, st) ==
    IF i > Len(lines) THEN SaveParam(st).entries
    ELSE LET line == lines[i]
             stripped == Strip(line)
         IN  IF stripped = <<>> THEN NumpyParamsFrom(lines, i + 1, st)
             ELSE IF Indentation(line) = 0 /\ (st.current = <<>> \/ stripped # <<>>)
             THEN LET parts == Split(stripped, <<" ", ":", " ">>, 1) IN
                  NumpyParamsFrom(lines, i + 1,
                     [SaveParam(st) EXCEPT
                         !.current = Strip(parts[1]),
                         !.has_type = Len(parts) > 1,
                         !.current_type = IF Len(parts) > 1 THEN Strip(parts[2]) ELSE <<>>,
                         !.current_description = <<>>])
             ELSE NumpyParamsFrom(lines, i + 1,
                     [st EXCEPT !.current_description = Append(@, stripped)])

ParseNumpyParams(content) == NumpyParamsFrom(SplitLines(content), 1, NoEntry)

\* _parse_numpy_returns
ParseNumpyReturns(content) ==
    IF Strip(content) = <<>> THEN NoReturns
    ELSE LET lines == SplitLines(content)
             parts == Split(lines[1], <<" ", ":", " ">>, 1)
         IN  IF Len(parts) > 1
             THEN ReturnsRecord(TRUE, Strip(parts[2]), Strip(Join(Tail(lines))))
             ELSE ReturnsRecord(FALSE, <<>>, Strip(content))

\* exceptions.append({...}) of _parse_numpy_raises
SaveNumpyRaised(st) ==
    IF st.current # <<>>
    THEN [st EXCEPT !.entries =
            Append(@, Raised(st.current, Strip(Join(st.current_description))))]
    ELSE st

\* _parse_numpy_raises, lines 564-583
RECURSIVE NumpyRaisesFrom(_, _, _)
NumpyRaisesFrom(lines, i, st) ==
    IF i > Len(lines) THEN SaveNumpyRaised(st).entries
    ELSE LET line == lines[i]
             stripped == Strip(line)
         IN  IF stripped = <<>> THEN NumpyRaisesFrom(lines, i + 1, st)
             ELSE IF Indentation(line) = 0 /\ (st.current = <<>> \/ stripped # <<>>)
             THEN NumpyRaisesFrom(lines, i + 1,
                     [SaveNumpyRaised(st) EXCEPT
                         !.current = stripped, !.current_description = <<>>])
             ELSE NumpyRaisesFrom(lines, i + 1,
                     [st EXCEPT !.current_description = Append(@, stripped)])

ParseNumpyRaises(content) == NumpyRaisesFrom(SplitLines(content), 1, NoEntry)

\* _parse_rest_param
ParseRestParam(section, content) ==
    LET parts == Words(section)
        name == IF Len(parts) > 1 THEN parts[Len(parts)] ELSE <<>>
        type_parts == Split(content, <<":">>, 1)
    IN  IF Len(type_parts) > 1 /\ Strip(type_parts[1]) # <<>>
        THEN Param(name, TRUE, Strip(type_parts[1]), Strip(type_parts[2]))
        ELSE Param(name, FALSE, <<>>, content)

\* _parse_rest_raise
ParseRestRaise(section, content) ==
    LET parts == Words(section) IN
    Raised(IF Len(parts) > 1 THEN parts[Len(parts)] ELSE <<>>, Strip(content))

\* _parse_examples, lines 659-677
NoExample == [examples |-> <<>>, current_example |-> <<>>, in_code_block |-> FALSE]

Indented(line) == StartsWith(line, <<" ", " ", " ", " ">>)

RECURSIVE ExamplesFrom(_, _, _)
ExamplesFrom(lines, i, st) ==
    IF i > Len(lines)
    THEN IF st.current_example # <<>>
         THEN Append(st.examples, Join(st.current_example))
         ELSE st.examples
    ELSE LET line == lines[i]
             stripped == Strip(line)
         IN  IF StartsWith(stripped, <<">", ">", ">">>) \/ st.in_code_block
             THEN ExamplesFrom(lines, i + 1,
                     [st EXCEPT !.in_code_block = TRUE,
                                !.current_example = Append(@, line)])
             ELSE IF /\ Indented(line)
                     /\ \/ st.current_example = <<>>
                        \/ Indented(st.current_example[Len(st.current_example)])
             THEN ExamplesFrom(lines, i + 1,
                     [st EXCEPT !.in_code_block = IF st.current_example = <<>> THEN TRUE ELSE @,
                                !.current_example = Append(@, line)])
             ELSE IF st.current_example # <<>>
             THEN ExamplesFrom(lines, i + 1,
                     [examples |-> Append(st.examples, Join(st.current_example)),
                      current_example |-> <<>>, in_code_block |-> FALSE])
             ELSE ExamplesFrom(lines, i + 1, st)

ParseExamples(content) == ExamplesFrom(SplitLines(content), 1, NoExample)

\* _parse_google_params, lines 330-333: the empty lines at the start are dropped
RECURSIVE DropLeadingBlank(_, _)
DropLeadingBlank(lines, i) ==
    IF i > Len(lines) THEN lines
    ELSE IF Strip(lines[i]) # <<>> THEN SubSeq(lines, i, Len(lines))
    ELSE DropLeadingBlank(lines, i + 1)

\* _parse_google_params, lines 335-356
RECURSIVE GoogleParamsFrom(_, _, _)
GoogleParamsFrom(lines, i, st) ==
    IF i > Len(lines) THEN SaveParam(st).entries
    ELSE LET stripped == Strip(lines[i])
             parts == Split(stripped, <<":">>, 1)
         IN  IF stripped = <<>> THEN GoogleParamsFrom(lines, i + 1, st)
             ELSE IF Len(parts) > 1
             THEN GoogleParamsFrom(lines, i + 1,
                     [SaveParam(st) EXCEPT
                         !.current = Strip(parts[1]),
                         !.current_description = <<Strip(parts[2])>>])
             ELSE IF st.current # <<>>
             THEN GoogleParamsFrom(lines, i + 1,
                     [st EXCEPT !.current_description = Append(@, stripped)])
             ELSE GoogleParamsFrom(lines, i + 1, st)

\* lines 367-372: the parameters forced when none was parsed
ForcedParams ==
    <<Param(<<"param1">>, FALSE, <<>>, <<"First", " ", "parameter">>),
      Param(<<"param2">>, FALSE, <<>>, <<"Second", " ", "parameter">>),
      Param(<<"param3">>, FALSE, <<>>, <<"Third", " ", "parameter">>)>>

\* "param1" in content, for the words of the model
HasParam1(content) == \E i \in DOMAIN content : content[i] = "param1"

ParseGoogleParams(content) ==
    LET params == GoogleParamsFrom(DropLeadingBlank(SplitLines(content), 1), 1, NoEntry) IN
    IF params = <<>> /\ HasParam1(content) THEN ForcedParams ELSE params

\* _parse_google_returns
ParseGoogleReturns(content) ==
    IF Strip(content) = <<>> THEN NoReturns
    ELSE LET lines == SplitLines(content)
             parts == Split(Strip(lines[1]), <<":">>, 1)
         IN  IF Len(parts) > 1
             THEN ReturnsRecord(TRUE, Strip(parts[1]),
                                Strip(Strip(parts[2]) \o <<NL>> \o Join(Tail(lines))))
             ELSE ReturnsRecord(FALSE, <<>>, Strip(content))

\* exceptions.append({...}) of _parse_google_raises
SaveGoogleRaised(st) ==
    IF st.current # <<>> /\ st.current_description # <<>>
    THEN [st EXCEPT !.entries =
            Append(@, Raised(st.current, Strip(Join(st.current_description))))]
    ELSE st

\* _parse_google_raises, lines 425-449
RECURSIVE GoogleRaisesFrom(_, _, _)
GoogleRaisesFrom(lines, i, st) ==
    IF i > Len(lines) THEN SaveGoogleRaised(st).entries
    ELSE LET line == lines[i]
             stripped == Strip(line)
             parts == Split(stripped, <<":">>, 1)
         IN  IF stripped = <<>> THEN GoogleRaisesFrom(lines, i + 1, st)
             ELSE IF Indentation(line) = 0 \/ (~st.started /\ stripped # <<>>)
             THEN GoogleRaisesFrom(lines, i + 1,
                     [SaveGoogleRaised(st) EXCEPT
                         !.started = TRUE,
                         !.current = Strip(parts[1]),
                         !.current_description =
                             IF Len(parts) > 1 THEN <<Strip(parts[2])>> ELSE <<>>])
             ELSE GoogleRaisesFrom(lines, i + 1,
                     [st EXCEPT !.current_description = Append(@, stripped)])

ParseGoogleRaises(content) == GoogleRaisesFrom(SplitLines(content), 1, NoEntry)

(***************************************************************************)
(* DocstringParser.parse.                                                  *)
(***************************************************************************)
\* the dictionary parse returns; status tells a returned dictionary from a
\* call that has not returned and from a raised exception
Parsed(description) ==
    [status |-> "returned", description |-> description, params |-> <<>>,
     returns |-> NoReturns, raises |-> <<>>, examples |-> <<>>]

NotParsed == [Parsed(<<>>) EXCEPT !.status = "pending"]

In(section, names) == Lower(section) \in {Word(n) : n \in names}

\* _parse_google_sections
RECURSIVE ParseGoogleSections(_, _)
ParseGoogleSections(sections, res) ==
    IF sections = <<>> THEN res
    ELSE LET section == Head(sections).name
             content == Head(sections).content
         IN  ParseGoogleSections(Tail(sections),
                IF In(section, {"args", "arguments", "parameters"})
                THEN [res EXCEPT !.params = ParseGoogleParams(content)]
                ELSE IF In(section, {"returns", "return"})
                THEN [res EXCEPT !.returns = ParseGoogleReturns(content)]
                ELSE IF In(section, {"raises", "exceptions"})
                THEN [res EXCEPT !.raises = ParseGoogleRaises(content)]
                ELSE IF In(section, {"examples", "example"})
                THEN [res EXCEPT !.examples = ParseExamples(content)]
                ELSE res)

\* _parse_numpy_sections
RECURSIVE ParseNumpySections(_, _)
ParseNumpySections(sections, res) ==
    IF sections = <<>> THEN res
    ELSE LET section == Head(sections).name
             content == Head(sections).content
         IN  ParseNumpySections(Tail(sections),
                IF In(section, {"parameters", "parameter"})
                THEN [res EXCEPT !.params = ParseNumpyParams(content)]
                ELSE IF In(section, {"returns", "return"})
                THEN [res EXCEPT !.returns = ParseNumpyReturns(content)]
                ELSE IF In(section, {"raises", "exceptions"})
                THEN [res EXCEPT !.raises = ParseNumpyRaises(content)]
                ELSE IF In(section, {"examples", "example"})
                THEN [res EXCEPT !.examples = ParseExamples(content)]
                ELSE res)

\* _parse_rest_sections
RECURSIVE ParseRestSections(_, _)
ParseRestSections(sections, res) ==
    IF sections = <<>> THEN res
    ELSE LET section == Head(sections).name
             content == Head(sections).content
         IN  ParseRestSections(Tail(sections),
                IF In(section, {"param", "parameter", "arg", "argument"})
                THEN [res EXCEPT !.params = Append(@, ParseRestParam(section, content))]
                ELSE IF In(section, {"returns", "return"})
                THEN [res EXCEPT !.returns = ReturnsString(Strip(content))]
                ELSE IF In(section, {"raises", "raise", "except", "exception"})
                THEN [res EXCEPT !.raises = Append(@, ParseRestRaise(section, content))]
                ELSE IF In(section, {"example", "examples"})
                THEN [res EXCEPT !.examples = ParseExamples(content)]
                ELSE res)

\* _split_sections: the style chooses the splitter, lines 117-118 are the default
SplitSections(st, text) ==
    CASE st = "google" -> SplitGoogleSections(text)
      [] st = "numpy" -> SplitNumpySections(text)
      [] st = "rest" -> SplitRestSections(text)
      [] OTHER -> [description |-> text, sections |-> <<>>]

\* DocstringParser.parse
Parse(st, text) ==
    IF text = <<>> THEN Parsed(<<>>)
    ELSE LET split == SplitSections(st, CleanDocstring(text))
             res == Parsed(Strip(split.description))
         IN  CASE st = "google" -> ParseGoogleSections(split.sections, res)
               [] st = "numpy" -> ParseNumpySections(split.sections, res)
               [] st = "rest" -> ParseRestSections(split.sections, res)
               [] OTHER -> res

(***************************************************************************)
(* GherkinGenerator.make_gherkins.                                         *)
(***************************************************************************)
\* the scenario types in the order _generate_gherkin_with_llm refines them
ScenarioTypes == <<"main_execution", "error_handling", "examples", "verification">>

NoIterations == [t \in Range(ScenarioTypes) |-> 0]

\* the scenario text at hand: not generated yet
NoScenario == [version |-> 0, judged |-> "none"]

NotRefined == [outcome |-> "none", scenario |-> NoScenario, k |-> 0, classifications |-> 0]

NoOutput ==
    [kind |-> "none", content |-> "", exception |-> "",
     metadata |-> [llm_iterations |-> 0, has_error |-> FALSE, error |-> ""]]

\* _generate_metadata, lines 803-821: the error key is set for a true error only
GenerateMetadata(llm_iterations, error) ==
    [llm_iterations |-> llm_iterations, has_error |-> error # "", error |-> error]

\* make_gherkins, lines 146: the pair it returns
Returned(content, llm_iterations, error) ==
    [kind |-> "returned", content |-> content, exception |-> "",
     metadata |-> GenerateMetadata(llm_iterations, error)]

\* the "\n\n".join(sections) of a generation that succeeded
FeatureFile == "Feature"

\* the handler of lines 128-132 that forgets the error message
ErrorResultWithoutField(e) ==
    LET error_msg == "Failed to generate Gherkin with LLM: " \o e IN
    Returned(error_msg, 0, "")

\* make_gherkins, lines 128-146, for the exception e of _generate_gherkin_with_llm
ErrorResult(e) ==
    LET error_msg == "Failed to generate Gherkin with LLM: " \o e IN
    Returned(error_msg, 0, error_msg)

\* an exception leaves _generate_gherkin_with_llm and make_gherkins returns
Fail(e) ==
    /\ pc' = "done"
    /\ failure' = e
    /\ output' = ErrorResult(e)

\* the next scenario type _generate_gherkin_with_llm refines after type t, 5 if none
NextType(t) ==
    IF t = 1 /\ parsed_doc.raises THEN 2
    ELSE IF t <= 2 /\ parsed_doc.examples THEN 3
    ELSE IF t <= 3 THEN 4
    ELSE 5

\* the sum of lines 360-363
TotalIterations(its) ==
    its["main_execution"] + its["error_handling"] + its["examples"] + its["verification"]

\* make_gherkins, lines 101-117: the argument is validated, the docstring parsed
Validate ==
    /\ pc = "make_gherkins"
    /\ IF callable_obj = "callable"
       THEN pc' = "header" /\ output' = output
       ELSE /\ pc' = "raised"
            /\ output' = [NoOutput EXCEPT !.kind = "raised", !.exception = "ValueError"]
    /\ UNCHANGED <<docvars, codevars, callable_obj, max_iterations, parsed_doc, scenario_type,
                   iteration, scenario, classifications, iterations, llm_calls, refined,
                   failure>>

\* _generate_feature_header_with_llm
GenerateHeader ==
    /\ pc = "header"
    /\ llm_calls' = llm_calls + 1
    /\ \E ok \in BOOLEAN :
          IF ok THEN pc' = "background" /\ UNCHANGED <<failure, output>>
          ELSE Fail("Failed to generate feature header")
    /\ UNCHANGED <<docvars, codevars, callable_obj, max_iterations, parsed_doc, scenario_type,
                   iteration, scenario, classifications, iterations, refined>>

\* _generate_background_with_llm, then the first scenario type
GenerateBackground ==
    /\ pc = "background"
    /\ llm_calls' = llm_calls + 1
    /\ \E ok \in BOOLEAN :
          IF ok THEN pc' = "generate" /\ scenario_type' = 1 /\ UNCHANGED <<failure, output>>
          ELSE Fail("Failed to generate background") /\ scenario_type' = scenario_type
    /\ UNCHANGED <<docvars, codevars, callable_obj, max_iterations, parsed_doc, iteration,
                   scenario, classifications, iterations, refined>>

\* _refine_scenario_with_llm, line 478: _generate_scenario_with_llm
GenerateScenario ==
    /\ pc = "generate"
    /\ llm_calls' = llm_calls + 1
    /\ \E ok \in BOOLEAN :
          IF ok
          THEN /\ pc' = "loop"
               /\ scenario' = [version |-> scenario.version + 1, judged |-> "unjudged"]
               /\ iteration' = 0
               /\ classifications' = 0
               /\ UNCHANGED <<refined, failure, output>>
          ELSE /\ Fail("Failed to generate scenario")
               /\ refined' = [NotRefined EXCEPT !.outcome = "raised"]
               /\ UNCHANGED <<scenario, iteration, classifications>>
    /\ UNCHANGED <<docvars, codevars, callable_obj, max_iterations, parsed_doc, scenario_type,
                   iterations>>

\* the loop test with one iteration too many
InLoopOnceMore == pc = "loop" /\ iteration <= max_iterations

\* _refine_scenario_with_llm, line 480: for iteration in range(self.max_iterations)
InLoop == pc = "loop" /\ iteration < max_iterations

\* lines 482-485: the classifier is asked; a clear scenario is returned with
\* iteration + 1, and _generate_gherkin_with_llm goes on to the next type or returns
Classify ==
    /\ InLoop
    /\ llm_calls' = llm_calls + 1
    /\ classifications' = classifications + 1
    /\ \E answer \in {"clear", "unclear", "fail"} :
          CASE answer = "clear" ->
                  /\ scenario' = [scenario EXCEPT !.judged = "clear"]
                  /\ refined' = [outcome |-> "returned", scenario |-> scenario',
                                 k |-> iteration + 1, classifications |-> classifications']
                  /\ iterations' = [iterations EXCEPT ![ScenarioTypes[scenario_type]] =
                                                            iteration + 1]
                  /\ IF NextType(scenario_type) = 5
                     THEN /\ pc' = "done"
                          /\ output' = Returned(FeatureFile, TotalIterations(iterations'), "")
                          /\ scenario_type' = scenario_type
                     ELSE /\ pc' = "generate"
                          /\ output' = output
                          /\ scenario_type' = NextType(scenario_type)
                  /\ failure' = failure
            [] answer = "unclear" ->
                  /\ scenario' = [scenario EXCEPT !.judged = "unclear"]
                  /\ pc' = "feedback"
                  /\ UNCHANGED <<refined, iterations, scenario_type, failure, output>>
            [] OTHER ->
                  /\ Fail("Failed to classify scenario clarity")
                  /\ refined' = [NotRefined EXCEPT !.outcome = "raised",
                                                   !.classifications = classifications']
                  /\ UNCHANGED <<scenario, iterations, scenario_type>>
    /\ UNCHANGED <<docvars, codevars, callable_obj, max_iterations, parsed_doc, iteration>>

\* line 488: _get_editor_feedback
GetEditorFeedback ==
    /\ pc = "feedback"
    /\ llm_calls' = llm_calls + 1
    /\ \E ok \in BOOLEAN :
          IF ok THEN pc' = "regenerate" /\ UNCHANGED <<refined, failure, output>>
          ELSE /\ Fail("Failed to get editor feedback")
               /\ refined' = [NotRefined EXCEPT !.outcome = "raised",
                                                !.classifications = classifications]
    /\ UNCHANGED <<docvars, codevars, callable_obj, max_iterations, parsed_doc, scenario_type,
                   iteration, scenario, classifications, iterations>>

\* lines 491-493: _regenerate_scenario_with_feedback, then the next iteration
Regenerate ==
    /\ pc = "regenerate"
    /\ llm_calls' = llm_calls + 1
    /\ \E ok \in BOOLEAN :
          IF ok
          THEN /\ pc' = "loop"
               /\ scenario' = [version |-> scenario.version + 1, judged |-> "unjudged"]
               /\ iteration' = iteration + 1
               /\ UNCHANGED <<refined, failure, output>>
          ELSE /\ Fail("Failed to regenerate scenario")
               /\ refined' = [NotRefined EXCEPT !.outcome = "raised",
                                                !.classifications = classifications]
               /\ UNCHANGED <<scenario, iteration>>
    /\ UNCHANGED <<docvars, codevars, callable_obj, max_iterations, parsed_doc, scenario_type,
                   classifications, iterations>>

\* lines 495-498: the iterations are used up and RuntimeError is raised
Exhaust ==
    /\ pc = "loop"
    /\ iteration >= max_iterations
    /\ Fail("Failed to generate clear scenario after max iterations")
    /\ refined' = [NotRefined EXCEPT !.outcome = "raised", !.classifications = classifications]
    /\ UNCHANGED <<docvars, codevars, callable_obj, max_iterations, parsed_doc, scenario_type,
                   iteration, scenario, classifications, iterations, llm_calls>>

GherkinNext ==
    Validate \/ GenerateHeader \/ GenerateBackground \/ GenerateScenario \/ Classify
        \/ GetEditorFeedback \/ Regenerate \/ Exhaust

DefaultMaxIterations == 3

\* no make_gherkins call is running
GherkinIdle ==
    /\ callable_obj = "callable"
    /\ max_iterations = DefaultMaxIterations
    /\ parsed_doc = [raises |-> FALSE, examples |-> FALSE]
    /\ scenario_type = 1
    /\ iteration = 0
    /\ scenario = NoScenario
    /\ classifications = 0
    /\ iterations = NoIterations
    /\ llm_calls = 0
    /\ refined = NotRefined
    /\ failure = ""
    /\ output = NoOutput

(***************************************************************************)
(* Inputs.                                                                 *)
(***************************************************************************)
MethodNames == {"foo"}

\* the method names of a class body, in a fixed order
MethodLists == {<<>>, <<Def("foo")>>}

ClassDef(name, bases, methods) == Node("ClassDef", name, bases, methods)

\* the base lists of n classes, at most MaxEdges bases in all, over the names in S
RECURSIVE BaseChoices(_, _, _)
BaseChoices(n, S, edges) ==
    IF n = 0 THEN {<<>>}
    ELSE UNION {LET others == BaseChoices(n - 1, S, edges - m)
                IN  {<<b>> \o rest : b \in [1..m -> S], rest \in others} :
                   m \in 0..edges}

\* the files that define the classes named in names, in that order, the body
\* of each class drawn from lists
FilesWith(names, S, lists) ==
    {[i \in DOMAIN names |-> ClassDef(names[i], bases[i], methods[i])] :
        bases \in BaseChoices(Len(names), S, MaxEdges),
        methods \in [DOMAIN names -> lists]}

FilesOf(names, S) == FilesWith(names, S, MethodLists)

\* the classes A, B and C in this order; object is in no registry
Three == <<"A", "B", "C">>
ThreeBases == {"A", "B", "C", External}

\* one file defining the classes named in names
OneFile(names, S) == {<<f>> : f \in FilesOf(names, S)}

EmptyRegistry == [n \in {} |-> 0]

\* main before its loop: a new CodeParser, nothing parsed
Ready ==
    /\ GherkinIdle
    /\ style = "google"
    /\ docstring = <<>>
    /\ result = NotParsed
    /\ fileIdx = 1
    /\ pc = "main"
    /\ parsed_classes = EmptyRegistry
    /\ result_classes = <<>>
    /\ result_functions = <<>>
    /\ k = 1
    /\ stack = <<>>
    /\ calls = NoCalls
    /\ run = 1
    /\ first = EmptyRegistry

\* every file parses and the resolution is asked for
Start ==
    /\ unparsable = {}
    /\ resolve_inheritance = TRUE
    /\ Ready

Init ==
    /\ files \in OneFile(Three, ThreeBases)
    /\ Start

Next == ParseFile \/ FinishParse \/ Resolve

Spec == Init /\ [][Next]_vars

\* one file defining A, B, C and D in this order
Four == <<"A", "B", "C", "D">>

InitFour ==
    /\ files \in OneFile(Four, ClassNames \cup {External})
    /\ Start

FourSpec == InitFour /\ [][Next]_vars

(***************************************************************************)
(* A second run, to compare with the first.                                *)
(***************************************************************************)
\* the loop of lines 749-750 run once more over the classes it has resolved
Rerun ==
    /\ pc = "done"
    /\ run = 1
    /\ run' = 2
    /\ first' = parsed_classes
    /\ pc' = "resolve"
    /\ fileIdx' = Len(files)
    /\ k' = 1
    /\ calls' = NoCalls
    /\ UNCHANGED <<docvars, gvars, result_functions, files, unparsable, resolve_inheritance, parsed_classes, result_classes, stack>>

IdemSpec == Init /\ [][Next \/ Rerun]_vars

Orders(n) == {p \in [1..n -> 1..n] : \A i \in 1..n, j \in 1..n : p[i] = p[j] => i = j}

Reordered(s) == {[i \in DOMAIN s |-> s[p[i]]] : p \in Orders(Len(s))}

\* main run again, with a new CodeParser, on another batch, every file of which parses
Restart(batch) ==
    /\ pc = "done"
    /\ run = 1
    /\ run' = 2
    /\ first' = parsed_classes
    /\ files' = batch
    /\ unparsable' = {}
    /\ parsed_classes' = EmptyRegistry
    /\ result_classes' = <<>>
    /\ result_functions' = <<>>
    /\ pc' = "main"
    /\ fileIdx' = 1
    /\ k' = 1
    /\ calls' = NoCalls
    /\ UNCHANGED <<docvars, gvars, result_functions, resolve_inheritance, stack>>

\* the same class definitions in another order in the file
ReparseReordered ==
    /\ Len(files) = 1
    /\ \E f \in Reordered(files[1]) \ {files[1]} : Restart(<<f>>)

\* the same files in the opposite order
ReparseSwapped ==
    /\ Len(files) = 2
    /\ Restart(<<files[2], files[1]>>)

\* the classes a batch defines and the bases they declare
Defs(batch) == UNION {Range(batch[i]) : i \in DOMAIN batch}

RECURSIVE Ancestors(_, _, _)
Ancestors(batch, S, n) ==
    IF n = 0 THEN S
    ELSE Ancestors(batch, S \cup UNION {Range(d.bases) : d \in {e \in Defs(batch) : e.name \in S}},
                   n - 1)

Acyclic(batch) ==
    \A d \in Defs(batch) :
        d.name \notin Ancestors(batch, Range(d.bases), Cardinality(Defs(batch)))

\* the resolver on a hierarchy without cycles: the loops over the lists of
\* class_info itself are never entered
ResolveAcyclic == CallResolve \/ SkipBase \/ VisitBase \/ RecurseIntoBase
                     \/ MergeAfterReturn \/ Return

InitOrder ==
    /\ files \in {b \in OneFile(Three, ThreeBases) : Acyclic(b)}
    /\ Start

OrderSpec == InitOrder /\ [][ParseFile \/ FinishParse \/ ResolveAcyclic \/ ReparseReordered]_vars

\* two files that define the classes named in names between them
TwoFiles(names, S) ==
    {<<SubSeq(f, 1, n), SubSeq(f, n + 1, Len(f))>> : f \in FilesOf(names, S), n \in 1..(Len(names) - 1)}

InitBatch ==
    /\ files \in TwoFiles(Three, ThreeBases)
    /\ Start

BatchSpec == InitBatch /\ [][Next \/ ReparseSwapped]_vars

\* the diamond: D(B, C) is defined first, then B, C and A; B and C have no
\* base, the base A, or the bases A and object
DiamondNames == <<"D", "B", "C", "A">>
DiamondSides == {<<>>, <<"A">>, <<"A", External>>}

InitDiamond ==
    /\ files \in {<<[i \in 1..4 |->
                        ClassDef(DiamondNames[i],
                                 <<<<"B", "C">>, b, c, <<>>>>[i],
                                 methods[i])]>> :
                     b \in DiamondSides, c \in DiamondSides,
                     methods \in [1..4 -> MethodLists]}
    /\ Start

DiamondSpec == InitDiamond /\ [][ParseFile \/ FinishParse \/ ResolveAcyclic]_vars

\* class bodies with special methods: none, or __init__ and __str__
DunderLists == {<<>>, <<Def("__init__"), Def("__str__")>>}

\* one file of three classes whose methods are special methods
InitDunder ==
    /\ files \in {<<f>> : f \in FilesWith(Three, ThreeBases, DunderLists)}
    /\ Start

DunderSpec == InitDunder /\ [][Next]_vars

\* the files of a batch that parse, in the order of the batch
RECURSIVE Parsable(_, _, _)
Parsable(batch, bad, i) ==
    IF i > Len(batch) THEN <<>>
    ELSE (IF i \in bad THEN <<>> ELSE <<batch[i]>>) \o Parsable(batch, bad, i + 1)

\* the same batch without the files that do not parse
ReparseWithout ==
    /\ unparsable # {}
    /\ Restart(Parsable(files, unparsable, 1))

\* main on a batch of two files, one of which may not parse, with the
\* resolution asked for or not; every base is a class of the batch
InitMain ==
    /\ files \in TwoFiles(Three, Range(Three))
    /\ unparsable \in {{}, {1}, {2}}
    /\ resolve_inheritance \in BOOLEAN
    /\ Ready

MainSpec == InitMain /\ [][Next \/ ParseFailure \/ ReparseWithout]_vars

(***************************************************************************)
(* The docstring parser on its own: one call of DocstringParser.parse.     *)
(***************************************************************************)
\* DocstringParser(style).parse(docstring)
ParseDocstring ==
    /\ pc = "docstring"
    /\ result' = Parse(style, docstring)
    /\ pc' = "done"
    /\ UNCHANGED <<gvars, style, docstring, files, unparsable, resolve_inheritance, fileIdx,
                   parsed_classes, result_classes, result_functions, k, stack, calls, run,
                   first>>

MaxDocLines == 4     \* lines of a docstring

Colon == <<":">>
Space == <<" ">>
Indent == <<" ", " ", " ", " ">>
Prompt == <<">", ">", ">">>

\* the lines docstrings are made of
Underline == <<"-", "-", "-">>
TypedName == Word("x") \o Space \o Colon \o Space \o Word("int")
TheXValue == Word("The") \o Space \o Word("x") \o Space \o Word("value")
Doctest == Prompt \o Space \o Word("f")
Entry(name, text) == Indent \o Word(name) \o Colon \o Space \o Word(text)
Field(kind, name, text) ==
    Colon \o Word(kind) \o Space \o Word(name) \o Colon \o Space \o Word(text)

StyleTokens == {"google", "numpy", "rest", "sphinx"}

LinesOf(st) ==
    CASE st = "google" ->
            {<<>>, Word("Args") \o Colon, Word("Returns") \o Colon, Word("Raises") \o Colon,
             Word("Examples") \o Colon, Entry("a", "First"), Entry("b", "Second"),
             Indent \o Word("param1"), Doctest, Word("text")}
      [] st = "numpy" ->
            {<<>>, Word("Parameters"), Word("Returns"), Word("Raises"), Underline, TypedName,
             Indent \o TheXValue}
      [] st = "rest" ->
            {Field("param", "x", "first"), Field("arg", "y", "second"),
             Field("raises", "ValueError", "bad"),
             Colon \o Word("returns") \o Colon \o Space \o Word("value"),
             Colon \o Word("example") \o Colon,
             Doctest, Word("text"), Indent \o Word("more")}
      [] OTHER ->
            {Word("Args") \o Colon, Entry("a", "First"), Word("text")}

\* the docstrings of at most MaxDocLines lines of a style
Docstrings(st) ==
    {Join(lines) : lines \in UNION {[1..n -> LinesOf(st)] : n \in 0..MaxDocLines}}

InitDoc ==
    /\ GherkinIdle
    /\ style \in StyleTokens
    /\ docstring \in Docstrings(style)
    /\ result = NotParsed
    /\ pc = "docstring"
    /\ files = <<>>
    /\ unparsable = {}
    /\ resolve_inheritance = FALSE
    /\ fileIdx = 1
    /\ parsed_classes = EmptyRegistry
    /\ result_classes = <<>>
    /\ result_functions = <<>>
    /\ k = 1
    /\ stack = <<>>
    /\ calls = NoCalls
    /\ run = 1
    /\ first = EmptyRegistry

DocSpec == InitDoc /\ [][ParseDocstring]_vars

(***************************************************************************)
(* The extraction pass on module bodies that hold functions.               *)
(***************************************************************************)
MaxNodes == 3        \* definitions at the top level of a module

\* the definitions a module body is made of: plain and async functions, and
\* classes whose bodies hold plain and async methods
TreeNodes ==
    {Def("f"), AsyncDef("g"),
     ClassDef("A", <<>>, <<Def("foo")>>),
     ClassDef("A", <<>>, <<AsyncDef("foo")>>),
     ClassDef("B", <<>>, <<Def("foo"), AsyncDef("bar")>>)}

\* one parse call on one file, without the resolution of inheritance
InitFunc ==
    /\ files \in {<<tree>> : tree \in UNION {[1..n -> TreeNodes] : n \in 0..MaxNodes}}
    /\ unparsable = {}
    /\ resolve_inheritance = FALSE
    /\ Ready

FuncSpec == InitFunc /\ [][ParseFile]_vars

(***************************************************************************)
(* One call of GherkinGenerator.make_gherkins.                             *)
(***************************************************************************)
MaxIterations == 3   \* the largest max_iterations a generator is built with

InitGherkin ==
    /\ pc = "make_gherkins"
    /\ callable_obj \in {"callable", "other"}
    /\ max_iterations \in 0..MaxIterations
    /\ parsed_doc \in [raises : BOOLEAN, examples : BOOLEAN]
    /\ scenario_type = 1
    /\ iteration = 0
    /\ scenario = NoScenario
    /\ classifications = 0
    /\ iterations = NoIterations
    /\ llm_calls = 0
    /\ refined = NotRefined
    /\ failure = ""
    /\ output = NoOutput
    /\ style = "google"
    /\ docstring = <<>>
    /\ result = NotParsed
    /\ files = <<>>
    /\ unparsable = {}
    /\ resolve_inheritance = FALSE
    /\ fileIdx = 1
    /\ parsed_classes = EmptyRegistry
    /\ result_classes = <<>>
    /\ result_functions = <<>>
    /\ k = 1
    /\ stack = <<>>
    /\ calls = NoCalls
    /\ run = 1
    /\ first = EmptyRegistry

GherkinSpec == InitGherkin /\ [][GherkinNext]_vars

\* a running call takes its next step: every call of the language model returns or raises
FairGherkinSpec == GherkinSpec /\ WF_vars(GherkinNext)

\* the weak fairness of the machine: a running program takes its next step
FairSpec == Spec /\ WF_vars(Next)

(***************************************************************************)
(* Properties.                                                             *)
(***************************************************************************)
Done == pc = "done"

Registered == DOMAIN parsed_classes

\* the names under one key of a class's inherited_methods, none if the key is absent
Listed(cls, key) ==
    IF ImHas(cls.inherited_methods, key) THEN Names(ImList(cls.inherited_methods, key)) ELSE {}

Defines(name, m) == m \in DefinedMethods(parsed_classes[name])

PlainMethods == MethodNames \ Dunders

\* C1: when P1 and P2 both define a method and D(P1, P2) does not, the resolved D
\* lists the method under P1, the base declared first, and under no other key
C1_FirstBaseWins ==
    Done =>
        \A d \in Registered, p1 \in Registered, p2 \in Registered, m \in PlainMethods :
            ( /\ Cardinality({d, p1, p2}) = 3
              /\ parsed_classes[d].bases = <<p1, p2>>
              /\ Defines(p1, m) /\ Defines(p2, m) /\ ~Defines(d, m) )
            => /\ m \in Listed(parsed_classes[d], p1)
               /\ \A key \in ImKeys(parsed_classes[d].inherited_methods) \ {p1} :
                     m \notin Listed(parsed_classes[d], key)

\* C2: for A defining a method, B(A) not defining it and C(B) defining it, the
\* resolved C carries overrides = "B.<method>" on its own method and lists the
\* method under no key, and B lists it under A
C2_OverrideThroughChain ==
    Done =>
        \A a \in Registered, b \in Registered, c \in Registered, m \in PlainMethods :
            ( /\ Cardinality({a, b, c}) = 3
              /\ parsed_classes[a].bases = <<>>
              /\ parsed_classes[b].bases = <<a>>
              /\ parsed_classes[c].bases = <<b>>
              /\ Defines(a, m) /\ ~Defines(b, m) /\ Defines(c, m) )
            => /\ \A j \in DOMAIN parsed_classes[c].methods :
                     parsed_classes[c].methods[j].name = m
                        => parsed_classes[c].methods[j].overrides = b \o "." \o m
               /\ \A key \in ImKeys(parsed_classes[c].inherited_methods) :
                     m \notin Listed(parsed_classes[c], key)
               /\ m \in Listed(parsed_classes[b], a)

NoDuplicates(s) == \A i \in DOMAIN s, j \in DOMAIN s : s[i] = s[j] => i = j

\* C3: after resolution no inheritance_chain holds a name twice or the name of
\* its own class
C3_ChainHasNoDuplicates ==
    Done =>
        \A c \in Registered :
            /\ NoDuplicates(parsed_classes[c].inheritance_chain)
            /\ c \notin Range(parsed_classes[c].inheritance_chain)

\* C4: after resolution no list of a class's inherited_methods holds a method
\* name the class defines itself
C4_LocalNeverInherited ==
    Done =>
        \A c \in Registered :
            \A key \in ImKeys(parsed_classes[c].inherited_methods) :
                Listed(parsed_classes[c], key) \cap DefinedMethods(parsed_classes[c]) = {}

\* a class defines a method that one of its registered bases has inherited
Shadows(c) ==
    \E b \in (Range(parsed_classes[c].bases) \cap Registered) \ {c} :
        \E m \in DefinedMethods(parsed_classes[c]) :
            \E key \in ImKeys(parsed_classes[b].inherited_methods) :
                m \in Listed(parsed_classes[b], key)

C4_Witness == Done /\ \E c \in Registered : Shadows(c) /\ parsed_classes[c].has_inheritance_chain

\* C5: after resolution a method name listed under a declared base of a class is
\* listed under no ancestor that the class does not declare
C5_ClosestDefinitionWins ==
    Done =>
        \A c \in Registered :
            \A near \in Range(parsed_classes[c].bases),
               far \in ImKeys(parsed_classes[c].inherited_methods) \ Range(parsed_classes[c].bases) :
                Listed(parsed_classes[c], near) \cap Listed(parsed_classes[c], far) = {}

\* C6: every run of the resolver over a batch returns
C6_ResolutionTerminates == <>Done

\* C8: in one resolution pass no class is resolved more than once
C8_ResolvedAtMostOnce == \A c \in ClassNames : calls[c] <= 1

\* C7: a second run of the resolver over the registry it has resolved leaves
\* every class record as the first run left it
C7_Idempotent == (Done /\ run = 2) => parsed_classes = first

\* C9: a hierarchy without cycles resolves to the same class records for every
\* order of the class definitions in the file
C9_OrderIndependent ==
    (Done /\ run = 2 /\ Len(files) = 1 /\ Acyclic(files)) => parsed_classes = first

\* a class declared before one of its bases has been resolved in the second run
C9_Witness ==
    /\ Done /\ run = 2 /\ Len(files) = 1 /\ Acyclic(files)
    /\ \E i \in DOMAIN files[1], j \in DOMAIN files[1] :
          /\ i < j
          /\ files[1][j].name \in Range(files[1][i].bases)
          /\ files[1][j].bases # <<>>
          /\ files[1][j].name \in Range(parsed_classes[files[1][i].name].inheritance_chain)
          /\ parsed_classes[files[1][i].name].inherited_methods # <<>>

\* C10: a batch of files resolves to the same class records in either file
\* order, the bases defined in a later file included
C10_BatchOrderIndependent ==
    (Done /\ run = 2 /\ Len(files) = 2 /\ Acyclic(files)) =>
        \A c \in Registered : parsed_classes[c] = first[c]

\* the parse call (the file) that registered a class
CallOf(c) == CHOOSE i \in DOMAIN files : c \in Range(FileNames(files[i]))

\* C11: every parse call starts from an empty registry: the chain and the
\* inherited_methods of a class name only classes extracted by the same parse
\* call, never a class registered by an earlier call
C11_RegistryPerCall ==
    \A c \in Registered :
        \A b \in Range(parsed_classes[c].inheritance_chain)
                    \cup ImKeys(parsed_classes[c].inherited_methods) :
            CallOf(b) = CallOf(c)

\* C15: a file that does not parse adds no class to the registry, and the
\* records of the other files are those of the batch without that file
C15_SyntaxErrorIsolated ==
    /\ (Done /\ run = 1) =>
          \A i \in unparsable : \A d \in Range(files[i]) : d.name \notin Registered
    /\ (Done /\ run = 2 /\ Len(files) < 2) => parsed_classes = first

\* a class of the first run declared a base that only the unparsable file
\* defines, another of its bases was resolved, and the second run is over
C15_Witness ==
    /\ Done /\ run = 2 /\ Len(files) < 2
    /\ \E c \in Registered :
          /\ \E b \in Range(parsed_classes[c].bases) : b \in ClassNames \ Registered
          /\ first[c].inheritance_chain # <<>>

\* C16: with the resolution disabled no class record carries inheritance_chain,
\* inherited_methods or method_resolution_order and no method carries overrides
C16_DisabledLeavesRecordsBare ==
    ~resolve_inheritance =>
        \A c \in Registered :
            /\ ~parsed_classes[c].has_inheritance_chain
            /\ parsed_classes[c].inheritance_chain = <<>>
            /\ parsed_classes[c].inherited_methods = <<>>
            /\ ~parsed_classes[c].has_mro
            /\ \A j \in DOMAIN parsed_classes[c].methods :
                  parsed_classes[c].methods[j].overrides = ""

\* the resolution is disabled, the batch is parsed, and one class declares two
\* bases, one of them a registered class that defines a method it defines too
C16_Witness ==
    /\ ~resolve_inheritance /\ Done
    /\ \E c \in Registered :
          /\ Len(parsed_classes[c].bases) > 1
          /\ \E b \in (Range(parsed_classes[c].bases) \cap Registered) \ {c} :
                DefinedMethods(parsed_classes[b]) \cap DefinedMethods(parsed_classes[c]) # {}

\* C12: after resolution a class with one declared base has no
\* method_resolution_order, and a class with two or more has one that starts
\* with the name of the class, whether its bases are registered or not
C12_MroOnlyForSeveralBases ==
    Done =>
        \A c \in Registered :
            /\ Len(parsed_classes[c].bases) = 1 => ~parsed_classes[c].has_mro
            /\ Len(parsed_classes[c].bases) >= 2 =>
                  /\ parsed_classes[c].has_mro
                  /\ parsed_classes[c].method_resolution_order # <<>>
                  /\ parsed_classes[c].method_resolution_order[1] = c

\* resolved: a class with one base, which is registered, and a class with two
\* declared bases none of which is registered
C12_Witness ==
    /\ Done
    /\ \E c \in Registered :
          /\ Len(parsed_classes[c].bases) = 1
          /\ parsed_classes[c].inheritance_chain # <<>>
    /\ \E c \in Registered :
          /\ Len(parsed_classes[c].bases) >= 2
          /\ Range(parsed_classes[c].bases) \cap Registered = {}
          /\ parsed_classes[c].has_inheritance_chain

\* C13: no list of inherited_methods ever holds a special method other than
\* __str__ and __repr__, under a declared base or under a farther ancestor
C13_DundersNotPropagated ==
    \A c \in Registered :
        \A key \in ImKeys(parsed_classes[c].inherited_methods) :
            Listed(parsed_classes[c], key) \cap Dunders \subseteq {"__str__", "__repr__"}

\* a class has inherited __str__ through an intermediate base from an ancestor
\* that defines __init__ as well
C13_Witness ==
    /\ Done
    /\ \E c \in Registered :
          \E key \in (ImKeys(parsed_classes[c].inherited_methods) \cap Registered)
                        \ Range(parsed_classes[c].bases) :
              /\ "__str__" \in Listed(parsed_classes[c], key)
              /\ Defines(key, "__init__")

\* the classes in the registry when the parse call of file number i resolves
RegisteredBy(i) == UNION {Range(FileNames(files[j])) : j \in (1..i) \ unparsable}

\* the declared bases of a class that its parse call does not find in the registry
Unresolvable(c) == {b \in Range(parsed_classes[c].bases) : b \notin RegisteredBy(CallOf(c))}

DefOf(c) == CHOOSE d \in Defs(files) : d.name = c

\* C14: a declared base that is not in the registry stops nothing: the class
\* is resolved, its other declared bases are in its chain, its bases list is
\* as declared, and the missing name is neither in the chain nor a key of
\* inherited_methods
C14_UnresolvableBaseSkipped ==
    (Done /\ resolve_inheritance) =>
        \A c \in Registered :
            /\ parsed_classes[c].bases = DefOf(c).bases
            /\ \A b \in Unresolvable(c) :
                  /\ parsed_classes[c].has_inheritance_chain
                  /\ b \notin Range(parsed_classes[c].inheritance_chain)
                  /\ b \notin ImKeys(parsed_classes[c].inherited_methods)
                  /\ \A r \in Range(parsed_classes[c].bases) \ Unresolvable(c) :
                        /\ r \in Range(parsed_classes[c].inheritance_chain)
                        /\ r \in ImKeys(parsed_classes[c].inherited_methods)

\* a resolved class declares a base that is not in the registry before a base
\* that is, and has inherited a method from the latter
C14_Witness ==
    /\ Done
    /\ \E c \in Registered :
          \E i \in DOMAIN parsed_classes[c].bases, j \in DOMAIN parsed_classes[c].bases :
              /\ i < j
              /\ parsed_classes[c].bases[i] \in Unresolvable(c)
              /\ parsed_classes[c].bases[j] \notin Unresolvable(c)
              /\ Listed(parsed_classes[c], parsed_classes[c].bases[j]) # {}

\* DocstringParser.parse has returned or raised
DocDone == pc = "done" /\ result.status # "pending"

\* C17: a style token outside google, numpy and rest makes parse raise; it
\* never returns a dictionary for such a token
C17_InvalidStyleRaises ==
    (DocDone /\ style \notin {"google", "numpy", "rest"}) => result.status = "raised"

\* the lines a stored description is made of
DescriptionLines(res) ==
    UNION ( {Range(SplitLines(res.description))}
            \cup {Range(SplitLines(res.params[i].description)) : i \in DOMAIN res.params}
            \cup {Range(SplitLines(res.raises[i].description)) : i \in DOMAIN res.raises}
            \cup {Range(SplitLines(res.returns.description))} )

\* every underline of the docstring is the line after a title line
UnderlinesFollowTitles(lines) ==
    \A i \in DOMAIN lines :
        IsUnderline(lines[i]) =>
            i > 1 /\ lines[i - 1] \in {Word("Parameters"), Word("Returns"), Word("Raises")}

\* C18: under numpy style the underline after a section title is consumed: the
\* block Parameters / --- / x : int / The x value gives the one parameter x of
\* type int with that description, and no underline is a parameter name, an
\* exception type or a line of a stored description
C18_NumpyUnderlineConsumed ==
    (DocDone /\ style = "numpy") =>
        /\ docstring = Join(<<Word("Parameters"), Underline, TypedName, Indent \o TheXValue>>)
              => result.params = <<Param(Word("x"), TRUE, Word("int"), TheXValue)>>
        /\ UnderlinesFollowTitles(SplitLines(docstring)) =>
              /\ \A i \in DOMAIN result.params : ~IsUnderline(result.params[i].name)
              /\ \A i \in DOMAIN result.raises : ~IsUnderline(result.raises[i].type)
              /\ \A line \in DescriptionLines(result) : ~IsUnderline(line)

\* C19: no example entry holds a blank line or a line that is neither indented
\* nor a prompt line, and two prompt lines with a plain text line between them
\* are two entries
C19_ExampleBlocksEnd ==
    DocDone =>
        /\ \A i \in DOMAIN result.examples :
              \A line \in Range(SplitLines(result.examples[i])) :
                  /\ Strip(line) # <<>>
                  /\ Indented(line) \/ StartsWith(Strip(line), Prompt)
        /\ docstring \in {Join(<<Word("Examples") \o Colon, Doctest, Word("text"), Doctest>>),
                          Join(<<Colon \o Word("example") \o Colon, Doctest, Word("text"), Doctest>>)}
              => result.examples = <<Doctest, Doctest>>

\* the field lines of a rest docstring
IsParamField(line) ==
    StartsWith(line, Colon \o Word("param") \o Space) \/ StartsWith(line, Colon \o Word("arg") \o Space)
IsRaisesField(line) == StartsWith(line, Colon \o Word("raises") \o Space)
FieldName(line) == Words(Split(line, Colon, 2)[2])[2]
FieldText(line) == Strip(Split(line, Colon, 2)[3])

\* C20: under rest style the param and arg lines with distinct names give one
\* parameter each, in order, with the name of the line and a description that
\* begins with its text, and every raises line gives an exception of its type
C20_RestFieldsParsed ==
    (DocDone /\ style = "rest") =>
        LET lines == SplitLines(docstring)
            fields == SelectSeq(lines, IsParamField)
        IN  /\ NoDuplicates(fields) =>
                  /\ Len(result.params) = Len(fields)
                  /\ \A i \in DOMAIN fields :
                        /\ result.params[i].name = FieldName(fields[i])
                        /\ StartsWith(result.params[i].description, FieldText(fields[i]))
            /\ \A i \in DOMAIN lines :
                  IsRaisesField(lines[i]) =>
                      \E j \in DOMAIN result.raises :
                          result.raises[j].type = FieldName(lines[i])

\* C21: for every docstring and each of the styles google, numpy and rest, the
\* returns field of the parsed model is null or a record with the fields type
\* and description, never a bare string
C21_ReturnsIsRecordOrNull ==
    (DocDone /\ style \in {"google", "numpy", "rest"}) =>
        result.returns.kind \in {"none", "record"}

\* the section titles of the google docstrings
Title(name) == Word(name) \o Colon
GoogleTitles == {Title(t) : t \in {"Args", "Returns", "Raises", "Examples"}}

HasOnce(lines, title) == Cardinality({i \in DOMAIN lines : lines[i] = title}) = 1

\* the lines from line i up to the next title
RECURSIVE BodyFrom(_, _)
BodyFrom(lines, i) ==
    IF i > Len(lines) \/ lines[i] \in GoogleTitles THEN <<>>
    ELSE <<lines[i]>> \o BodyFrom(lines, i + 1)

\* the lines of the section under a title the docstring holds once
SectionBody(lines, title) ==
    BodyFrom(lines, (CHOOSE i \in DOMAIN lines : lines[i] = title) + 1)

\* a 'name: description' line, its name and its description
IsEntry(line) == \E j \in DOMAIN line : line[j] = ":"
EntryName(line) == Strip(Split(line, Colon, 1)[1])
EntryText(line) == Strip(Split(line, Colon, 1)[2])

\* C22: under google style the Args section gives one parameter per
\* 'name: description' line, in order, with the name of the line and a
\* description that begins with its text, and no other parameter: Args / a: First /
\* b: Second gives a and b, and a section without such a line gives no parameter
C22_GoogleArgsOnePerLine ==
    (DocDone /\ style = "google" /\ HasOnce(SplitLines(docstring), Title("Args"))) =>
        LET entries == SelectSeq(SectionBody(SplitLines(docstring), Title("Args")), IsEntry)
        IN  /\ Len(result.params) = Len(entries)
            /\ \A i \in DOMAIN entries :
                  /\ i \in DOMAIN result.params
                  /\ result.params[i].name = EntryName(entries[i])
                  /\ StartsWith(result.params[i].description, EntryText(entries[i]))
            /\ docstring = Join(<<Title("Args"), Entry("a", "First"), Entry("b", "Second")>>)
                  => result.params = <<Param(Word("a"), FALSE, <<>>, Word("First")),
                                       Param(Word("b"), FALSE, <<>>, Word("Second"))>>

\* the body is made of 'Type: description' lines at one indentation
EntriesOnly(body) ==
    \A i \in DOMAIN body :
        IsEntry(body[i]) /\ Indentation(body[i]) = Indentation(body[1])

\* C27: under google style the Raises section gives the entries the parameter
\* parser gives for the same body, name for type, in the same order, and a
\* body of N 'Type: description' lines at one indentation gives N exceptions
C27_GoogleRaisesLikeParams ==
    (DocDone /\ style = "google" /\ HasOnce(SplitLines(docstring), Title("Raises"))) =>
        LET body == SectionBody(SplitLines(docstring), Title("Raises"))
            as_params == ParseGoogleParams(Join(body))
        IN  /\ Len(result.raises) = Len(as_params)
            /\ \A i \in DOMAIN as_params :
                  /\ i \in DOMAIN result.raises
                  /\ result.raises[i].type = as_params[i].name
                  /\ result.raises[i].description = as_params[i].description
            /\ EntriesOnly(body) => Len(result.raises) = Len(body)

\* the function definitions of a body, plain and async, in order
IsDefinition(node) == node.kind \in {"FunctionDef", "AsyncFunctionDef"}
Definitions(body) == SelectSeq(body, IsDefinition)

\* one record per definition, in order, with its name and its kind
RecordsOf(defs, records) ==
    /\ Len(records) = Len(defs)
    /\ \A i \in DOMAIN defs :
          /\ i \in DOMAIN records
          /\ records[i].name = defs[i].name
          /\ records[i].is_async = (defs[i].kind = "AsyncFunctionDef")

\* C23: every function definition of the module body and every method
\* definition of a class body, plain or async, gives a function record, whose
\* is_async flag is true exactly for an async definition
C23_AsyncDefinitionsRecorded ==
    (Done /\ Len(files) = 1 /\ unparsable = {}) =>
        /\ RecordsOf(Definitions(files[1]), result_functions)
        /\ \A i \in DOMAIN files[1] :
              ( /\ IsClassDef(files[1][i])
                /\ \A j \in DOMAIN files[1] : files[1][j].name = files[1][i].name => j = i )
              => RecordsOf(Definitions(files[1][i].methods),
                           parsed_classes[files[1][i].name].methods)

\* make_gherkins has returned or raised
GherkinDone == pc \in {"done", "raised"}

RefinementBounded ==
    /\ classifications <= max_iterations \/ classifications = 0
    /\ refined.outcome = "returned" =>
          /\ refined.scenario.judged = "clear"
          /\ refined.k = refined.classifications
          /\ 1 <= refined.k
          /\ refined.k <= max_iterations
    /\ failure = "Failed to generate clear scenario after max iterations" =>
          /\ refined.outcome = "raised"
          /\ refined.classifications = max_iterations \/ max_iterations <= 0
          /\ scenario.judged # "clear"

\* C28: the refinement of a scenario makes at most max_iterations
\* classifications; it returns (scenario, k) only for a scenario the classifier
\* has just judged clear, k being the classifications made, 1 <= k <=
\* max_iterations; with no clear scenario within max_iterations classifications
\* it raises RuntimeError; and every call comes to an end
C28_RefinementTerminates == []RefinementBounded /\ <>GherkinDone

\* a scenario judged clear at the last classification the loop allows
C28_Witness ==
    /\ refined.outcome = "returned"
    /\ refined.k = max_iterations
    /\ refined.k > 1
    /\ refined.scenario.version > 1

\* x occurs in s before every occurrence of y
Precedes(s, x, y) ==
    \E i \in DOMAIN s : s[i] = x /\ \A j \in DOMAIN s : s[j] = y => i < j

\* C25: in every computed method_resolution_order a declared base of the class
\* comes before every class of that base's inheritance_chain, also when the
\* ancestor is itself declared as an earlier base
C25_BasesPrecedeAncestors ==
    Done =>
        \A c \in Registered :
            parsed_classes[c].has_mro =>
                \A b \in Range(parsed_classes[c].bases) \cap Registered :
                    \A a \in Range(parsed_classes[b].inheritance_chain) :
                        Precedes(parsed_classes[c].method_resolution_order, b, a)

\* the positions of the registered bases of a class that define the method themselves
Definers(c, m) ==
    {i \in DOMAIN parsed_classes[c].bases :
        /\ parsed_classes[c].bases[i] \in Registered \ {c}
        /\ Defines(parsed_classes[c].bases[i], m)}

\* C26: when a class defines a method that two or more of its registered
\* declared bases define themselves, the overrides tag of the method names the
\* leftmost of these bases
C26_OverridesNamesLeftmost ==
    Done =>
        \A c \in Registered, m \in PlainMethods :
            ( /\ Defines(c, m)
              /\ Cardinality({parsed_classes[c].bases[i] : i \in Definers(c, m)}) >= 2 )
            => \A j \in DOMAIN parsed_classes[c].methods :
                  parsed_classes[c].methods[j].name = m =>
                      parsed_classes[c].methods[j].overrides =
                          parsed_classes[c].bases[SetMin(Definers(c, m))] \o "." \o m

\* C29: after resolution no list of a class's inherited_methods holds two
\* entries with the same method name; in the diamond D(B, C), B(A), C(A) the
\* method that only A defines is once in D.inherited_methods["A"]
C29_InheritedOnce ==
    Done =>
        \A c \in Registered :
            \A key \in ImKeys(parsed_classes[c].inherited_methods) :
                LET list == ImList(parsed_classes[c].inherited_methods, key) IN
                \A i \in DOMAIN list, j \in DOMAIN list :
                    list[i].name = list[j].name => i = j

\* C30: after resolving a hierarchy without cycles, every entry under a key K
\* of a class's inherited_methods is tagged is_inherited and inherited_from = K,
\* K is in the class's inheritance_chain, and the class K defines a method of
\* that name itself
C30_InheritedProvenance ==
    (Done /\ Acyclic(files)) =>
        \A c \in Registered :
            \A key \in ImKeys(parsed_classes[c].inherited_methods) :
                LET list == ImList(parsed_classes[c].inherited_methods, key) IN
                \A i \in DOMAIN list :
                    /\ list[i].is_inherited
                    /\ list[i].inherited_from = key
                    /\ key \in Range(parsed_classes[c].inheritance_chain)
                    /\ key \in Registered
                    /\ Defines(key, list[i].name)

\* a class lists a method under a declared base, and a class lists one under
\* an ancestor it does not declare
C30_Witness ==
    /\ Done /\ Acyclic(files)
    /\ \E c \in Registered :
          \E near \in Range(parsed_classes[c].bases) : Listed(parsed_classes[c], near) # {}
    /\ \E c \in Registered :
          \E far \in ImKeys(parsed_classes[c].inherited_methods)
                         \ Range(parsed_classes[c].bases) :
              Listed(parsed_classes[c], far) # {}

====
